---- MODULE Spec2Model ----
(***************************************************************************)
(* Pipeline synchronisation of the lead board: the local snapshot of       *)
(* leads held by KanbanBoard, its projection into the six stage columns,   *)
(* the optimistic stage move with its durable write, the realtime          *)
(* re-fetch, and the flat list view with bulk delegation.                  *)
(***************************************************************************)
EXTENDS Integers, Sequences, FiniteSets, Bags, TLC

\* ------------------------------------------------------------------ bounds
MaxClock == 3        \* last instant at which an operation reads the clock
MaxFetches == 2      \* fetchLeads requests in flight at once
MaxWrites == 1       \* durable stage writes in flight at once
MaxEvents == 1       \* realtime notifications not yet delivered
MaxUserFetches == 1  \* fetchAllUsers requests in flight at once

\* --------------------------------------------------------------- constants
NoValue == -1        \* a lead whose value column is null/absent
NoMaster == "none"   \* master_account_id of a master profile (null)
WebhookUser == "webhook-user"

\* webhook-lead: the fields the handler insists on
RequiredFields == <<"name", "email", "phone", "source">>

\* a response of webhook-lead: HTTP status, the error text ("" on success),
\* the "required" list of a 400 and the leadId of a 200; status 0: none yet
NoResponse == [status |-> 0, error |-> "", required |-> <<>>, leadId |-> ""]

\* defaultColumns, in order
Stages == <<"new", "contacted", "qualified", "proposal", "won", "lost">>

StageSet == {Stages[i] : i \in 1..Len(Stages)}

\* stages another session moves a lead to
ExtStages == {"lost"}

\* columns a card is dropped on
DropStages == {"new", "qualified", "won"}

\* profiles that sign in on this browser
SignIns == {"uA", "uM"}

LeadIds == {"L1", "L2", "L3"}

\* rows of the profiles table, after transformProfile (id := user_id)
transformProfile(p) == [id |-> p.user_id, user_id |-> p.user_id, role |-> p.role,
                        master_account_id |-> p.master_account_id]

ProfileRows ==
    << [user_id |-> "uA", role |-> "master", master_account_id |-> NoMaster],
       [user_id |-> "uB", role |-> "master", master_account_id |-> NoMaster],
       [user_id |-> "uM", role |-> "user",   master_account_id |-> "uA"],
       [user_id |-> "uN", role |-> "user",   master_account_id |-> "uB"] >>

Profiles == {transformProfile(ProfileRows[i]) : i \in 1..Len(ProfileRows)}

\* the rows of the leads table when the board is mounted
InitialStore ==
    { [id |-> "L1", status |-> "new", assigned_to |-> "uM", value |-> 5,
       created_at |-> 0, updated_at |-> 0],
      [id |-> "L2", status |-> "contacted", assigned_to |-> "uN", value |-> NoValue,
       created_at |-> 1, updated_at |-> 1] }

InitialClock == 1

\* AuthProvider's user when nobody is signed in (null)
NoUser == [id |-> "", user_id |-> "", role |-> "", master_account_id |-> NoMaster]

\* accounts that sign in through the LoginForm
Logins == {"uA", "uB", "uM"}

\* accounts a master provisions with addSubUser
SubUserIds == {"uS"}

\* no card is being dragged
NoDrag == [draggableId |-> "", source |-> <<>>]

\* no addSubUser call in flight
NoProvision == [step |-> "idle", by |-> NoUser, id |-> ""]

\* ------------------------------------------------------------------- state
VARIABLES
    store,          \* rows of the durable leads table (set of lead records)
    leads,          \* KanbanBoard state: local snapshot (sequence of leads)
    columns,        \* KanbanBoard state: the six columns with their leads
    user,           \* useAuth().user: the current principal
    users,          \* useAuth().users: the fetched team list
    viewMode,       \* KanbanBoard state: "kanban" or "list"
    loading,        \* KanbanBoard state
    selectedLeads,  \* LeadListView state: selected lead ids (an array)
    assignToUser,   \* LeadListView state: chosen delegate id, "" when none
    fetches,        \* fetchLeads calls in flight
    writes,         \* leads.update calls in flight (from onDragEnd)
    events,         \* postgres_changes notifications not yet delivered
    toast,          \* title of the last toast shown
    now,            \* last instant read from the clock
    session,        \* AuthProvider state: user id of the session, "" when none
    profileFetch,   \* fetchUserProfile call in flight: its user id, "" when none
    userFetches,    \* fetchAllUsers calls in flight
    response,       \* the last response of the webhook-lead function
    profiles,       \* rows of the profiles table, in insertion order
    provision,      \* addSubUser call in flight: its position, caller and account
    signedUp,       \* accounts created by the auth.signUp of addSubUser
    dragging        \* the card being dragged: its lead id and source slot

\* the state of AuthProvider
auth == <<user, users, session, profileFetch, userFetches, profiles, provision,
          signedUp>>

vars == <<store, leads, columns, auth, viewMode, loading, selectedLeads,
          assignToUser, fetches, writes, events, toast, now, response, dragging>>

\* ----------------------------------------------------------------- helpers
Range(s) == {s[i] : i \in 1..Len(s)}

RemoveAt(s, i) == [j \in 1..(Len(s) - 1) |-> IF j < i THEN s[j] ELSE s[j + 1]]

\* the results .order('created_at', {ascending: false}) may return for rows S
OrderedByCreatedDesc(S) ==
    { q \in [1..Cardinality(S) -> S] :
        /\ \A i, j \in 1..Cardinality(S) : i # j => q[i] # q[j]
        /\ \A i, j \in 1..Cardinality(S) : i < j => q[i].created_at >= q[j].created_at }

\* defaultColumns.map(column => ({...column, leads: leads.filter(...)}))
ProjectWrongStage(ls) ==
    [i \in 1..Len(Stages) |->
        [id |-> Stages[i],
         leads |-> SelectSeq(ls, LAMBDA l : l.status # Stages[i])]]

Project(ls) ==
    [i \in 1..Len(Stages) |->
        [id |-> Stages[i],
         leads |-> SelectSeq(ls, LAMBDA l : l.status = Stages[i])]]

\* column.leads.reduce((sum, lead) => sum + (lead.value || 0), 0)
RECURSIVE totalValue(_)
totalValue(ls) ==
    IF ls = <<>> THEN 0
    ELSE (IF Head(ls).value = NoValue THEN 0 ELSE Head(ls).value) + totalValue(Tail(ls))

\* leads.filter(lead => user.role === 'master' || lead.assigned_to === user.user_id)
visibleLeadsAnyOwner(ls, u) == ls

visibleLeadsOf(ls, u) ==
    SelectSeq(ls, LAMBDA l : u.role = "master" \/ l.assigned_to = u.user_id)

visibleLeads == IF viewMode = "list" THEN visibleLeadsOf(leads, user) ELSE <<>>

\* LeadListView.getMasterUsers: the delegates offered in the select
getMasterUsers == IF user.role # "master" THEN <<user>> ELSE <<user>> \o users

\* fetchAllUsers: the rows matching user_id = user.user_id or master_account_id = user.id
TeamOf(u) ==
    LET rows == SelectSeq(profiles,
                    LAMBDA p : p.user_id = u.user_id \/ p.master_account_id = u.id)
    IN  [i \in 1..Len(rows) |-> transformProfile(rows[i])]

\* fetchLeads(): the request joins the calls in flight; by is the caller: the
\* fetch effect ("effect"), the realtime callback ("channel") or the error
\* path of onDragEnd ("onDragEnd")
StartFetch(fs, by) ==
    fs (+) SetToBag({[phase |-> "sent", data |-> <<>>, revert |-> <<>>, by |-> by]})

\* fetchLeads() called from the error paths of onDragEnd ("Revert optimistic
\* update on error") for the write w
StartRevertFetch(fs, w) ==
    fs (+) SetToBag({[phase |-> "sent", data |-> <<>>, revert |-> <<w.id, w.prior>>,
                      by |-> "onDragEnd"]})


\* --------------------------------------------------------------------- Init
Init ==
    /\ profiles = ProfileRows
    /\ dragging = NoDrag
    /\ provision = NoProvision
    /\ signedUp = {}
    /\ store = InitialStore
    /\ leads = <<>>
    /\ columns = [i \in 1..Len(Stages) |-> [id |-> Stages[i], leads |-> <<>>]]
    /\ user \in {p \in Profiles : p.user_id \in SignIns}
    /\ users = IF user.role = "master" THEN TeamOf(user) ELSE <<>>
    /\ viewMode = "kanban"
    /\ loading = TRUE
    /\ selectedLeads = <<>>
    /\ assignToUser = ""
    /\ fetches = StartFetch(EmptyBag, "effect")
    /\ writes = <<>>
    /\ events = 0
    /\ toast = "none"
    /\ now = InitialClock
    /\ session = user.user_id
    /\ profileFetch = ""
    /\ userFetches = EmptyBag
    /\ response = NoResponse

\* ------------------------------------------------------------ AuthProvider
\* AuthProvider renders its children (the board) only with a session and a user
MountedWith(s, u) == s # "" /\ u # NoUser

Mounted == MountedWith(session, user)

\* what a render of AuthProvider does to the board: KanbanBoard is mounted
\* afresh (and its fetch effect runs) when the children start being shown, its
\* state is gone when they stop being shown, and its effect on [user] runs
\* fetchLeads again when the user changes under a mounted board
Render ==
    IF ~Mounted /\ MountedWith(session', user') THEN
        /\ leads' = <<>>
        /\ columns' = Project(<<>>)
        /\ viewMode' = "kanban"
        /\ loading' = TRUE
        /\ selectedLeads' = <<>>
        /\ assignToUser' = ""
        /\ dragging' = NoDrag
        /\ fetches' = StartFetch(EmptyBag, "effect")
    ELSE IF Mounted /\ ~MountedWith(session', user') THEN
        /\ leads' = <<>>
        /\ columns' = Project(<<>>)
        /\ viewMode' = "kanban"
        /\ loading' = TRUE
        /\ selectedLeads' = <<>>
        /\ assignToUser' = ""
        /\ dragging' = NoDrag
        /\ fetches' = EmptyBag
    ELSE IF Mounted /\ user' # user THEN
        /\ BagCardinality(fetches) < MaxFetches
        /\ fetches' = StartFetch(fetches, "effect")
        /\ UNCHANGED <<leads, columns, viewMode, loading, selectedLeads, assignToUser,
                       dragging>>
    ELSE
        UNCHANGED <<leads, columns, viewMode, loading, selectedLeads, assignToUser, fetches,
                    dragging>>

\* onAuthStateChange with a session (after signInWithPassword from the
\* LoginForm, or getSession at start): setSession, and fetchUserProfile is
\* called
SignIn ==
    /\ ~Mounted
    /\ profileFetch = ""
    /\ \E id \in Logins :
        /\ session' = id
        /\ profileFetch' = id
    /\ UNCHANGED <<store, user, users, userFetches, writes, events, toast, now, response,
                   profiles, provision, signedUp>>
    /\ Render

\* the rows of the profiles table with this user_id
RowsOf(id) == {i \in 1..Len(profiles) : profiles[i].user_id = id}

\* the profile fetchUserProfile inserts when the select finds none
newProfile(id) == [user_id |-> id, role |-> "master", master_account_id |-> NoMaster]

\* the effect on [user?.id]: fetchAllUsers for a master whose id is new
UserEffect ==
    IF user'.id # user.id /\ user'.role = "master"
    THEN /\ BagCardinality(userFetches) < MaxUserFetches
         /\ userFetches' = userFetches (+) SetToBag({[by |-> user']})
    ELSE UNCHANGED userFetches

\* fetchUserProfile resolves: with the profile (the one row maybeSingle finds,
\* or, when there is none, the row it inserts with role 'master'),
\* setUser(transformProfile(profile)) and the effect on [user?.id] calls
\* fetchAllUsers for a master; with null (an error, or several rows), nothing
ProfileLand ==
    /\ profileFetch # ""
    /\ profileFetch' = ""
    /\ \/ \E i \in RowsOf(profileFetch) :
            /\ Cardinality(RowsOf(profileFetch)) = 1
            /\ user' = transformProfile(profiles[i])
            /\ UserEffect
            /\ UNCHANGED profiles
       \/ /\ RowsOf(profileFetch) = {}
          /\ profiles' = Append(profiles, newProfile(profileFetch))
          /\ user' = transformProfile(newProfile(profileFetch))
          /\ UserEffect
       \/ UNCHANGED <<user, userFetches, profiles>>
    /\ UNCHANGED <<store, users, session, writes, events, toast, now, response,
                   provision, signedUp>>
    /\ Render

\* the select of fetchAllUsers resolves: setUsers(data.map(transformProfile)),
\* or with an error nothing
UsersLand ==
    /\ \E f \in BagToSet(userFetches) :
        /\ userFetches' = userFetches (-) SetToBag({f})
        /\ \/ users' = TeamOf(f.by)
           \/ UNCHANGED users
    /\ UNCHANGED <<store, leads, columns, user, session, profileFetch, viewMode,
                   loading, selectedLeads, assignToUser, fetches, writes, events,
                   toast, now, response, profiles, provision, signedUp, dragging>>

\* logout: signOut, setUser(null), setSession(null), setUsers([])
logout ==
    /\ Mounted
    /\ session' = ""
    /\ user' = NoUser
    /\ users' = <<>>
    /\ UNCHANGED <<store, profileFetch, userFetches, writes, events, toast, now, response,
                   profiles, provision, signedUp>>
    /\ Render

\* addSubUser called by a master: the lookup of the email in profiles, then
\* auth.signUp, which creates the account; "Erro" when the email has a profile
\* or signUp reports an error (as it does for an account that exists)
addSubUser ==
    /\ Mounted
    /\ user.role = "master"
    /\ provision.step = "idle"
    /\ \E id \in SubUserIds :
        IF RowsOf(id) # {} \/ id \in signedUp
        THEN /\ toast' = "Erro"
             /\ UNCHANGED <<provision, signedUp>>
        ELSE \/ /\ signedUp' = signedUp \cup {id}
                /\ provision' = [step |-> "signedUp", by |-> user, id |-> id]
                /\ UNCHANGED toast
             \/ /\ toast' = "Erro"
                /\ UNCHANGED <<provision, signedUp>>
    /\ UNCHANGED <<store, leads, columns, user, users, session, profileFetch,
                   userFetches, profiles, viewMode, loading, selectedLeads,
                   assignToUser, fetches, writes, events, now, response, dragging>>

\* the insert of addSubUser into profiles resolves: the row with role 'user'
\* under the caller is in the table and fetchAllUsers is awaited, or the
\* insert is refused and "Erro" is shown
SubUserInsert ==
    /\ provision.step = "signedUp"
    /\ \/ /\ profiles' = Append(profiles, [user_id |-> provision.id, role |-> "user",
                                            master_account_id |-> provision.by.user_id])
          /\ provision' = [provision EXCEPT !.step = "listing"]
          /\ UNCHANGED toast
       \/ /\ provision' = NoProvision
          /\ toast' = "Erro"
          /\ UNCHANGED profiles
    /\ UNCHANGED <<store, leads, columns, user, users, session, profileFetch,
                   userFetches, signedUp, viewMode, loading, selectedLeads,
                   assignToUser, fetches, writes, events, now, response, dragging>>

\* the fetchAllUsers awaited by addSubUser resolves (for the user of the
\* call, whoever is signed in by now), then "Sucesso!" is shown
SubUserListed ==
    /\ provision.step = "listing"
    /\ provision' = NoProvision
    /\ \/ users' = TeamOf(provision.by)
       \/ UNCHANGED users
    /\ toast' = "Sucesso!"
    /\ UNCHANGED <<store, leads, columns, user, session, profileFetch, userFetches,
                   profiles, signedUp, viewMode, loading, selectedLeads,
                   assignToUser, fetches, writes, events, now, response, dragging>>

\* onAuthStateChange with the session of an account made by addSubUser (the
\* session signUp returns, or a sign-in of that account): setSession, and
\* fetchUserProfile is called
SignedUpSession ==
    /\ profileFetch = ""
    /\ \E id \in signedUp :
        /\ session # id
        /\ session' = id
        /\ profileFetch' = id
    /\ UNCHANGED <<store, user, users, userFetches, writes, events, toast, now, response,
                   profiles, provision, signedUp>>
    /\ Render

\* ------------------------------------------------------------- fetchLeads
\* the table answers the select of a fetch in flight with its rows, ordered
FetchServe ==
    \E f \in BagToSet(fetches) :
        /\ f.phase = "sent"
        /\ \E d \in OrderedByCreatedDesc(store) :
             fetches' = (fetches (-) SetToBag({f}))
                          (+) SetToBag({[f EXCEPT !.phase = "ok", !.data = d]})
        /\ UNCHANGED <<store, leads, columns, auth, dragging, response, viewMode, loading,
                       selectedLeads, assignToUser, writes, events, toast, now>>

\* setLeads(data as Lead[] || []): the snapshot becomes the fetched rows
setLeadsKeepingOld(data) == data \o SelectSeq(leads, LAMBDA l : l \notin Range(data))

setLeads(data) == data

\* the awaited select of fetchLeads resolves and the rest of fetchLeads runs:
\* with data, setLeads(data) and the columns effect re-derives the columns;
\* with an error result, the toast; when the request throws, nothing
FetchLand ==
    \E f \in BagToSet(fetches) :
        /\ fetches' = fetches (-) SetToBag({f})
        /\ loading' = FALSE
        /\ \/ /\ f.phase = "ok"
              /\ leads' = setLeads(f.data)
              /\ columns' = Project(leads')
              /\ UNCHANGED toast
           \/ /\ f.phase = "sent"
              /\ toast' = "Erro"
              /\ UNCHANGED <<leads, columns>>
           \/ /\ f.phase = "sent"
              /\ UNCHANGED <<leads, columns, toast>>
        /\ UNCHANGED <<store, auth, dragging, response, viewMode, selectedLeads, assignToUser,
                       writes, events, now>>

\* a postgres_changes INSERT/UPDATE notification reaches the channel callback
RealtimeEvent ==
    /\ events > 0
    /\ BagCardinality(fetches) < MaxFetches
    /\ events' = events - 1
    /\ fetches' = StartFetch(fetches, "channel")
    /\ UNCHANGED <<store, leads, columns, auth, dragging, response, viewMode, loading,
                   selectedLeads, assignToUser, writes, toast, now>>

\* --------------------------------------------------------------- onDragEnd
\* source.droppableId === destination.droppableId && source.index === destination.index
SameSlotNever(source, destination) == FALSE

SameSlot(source, destination) ==
    source[1] = destination[1] /\ source[2] = destination[2]

\* user?.role !== 'master'
MayMoveAnyone(u) == TRUE

MayMove(u) == u.role = "master"

\* leads.map(lead => lead.id === leadId ? {...lead, status, updated_at} : lead)
MoveLeadKeepStatus(ls, leadId, newStatus, t) ==
    [k \in 1..Len(ls) |->
        IF ls[k].id = leadId THEN [ls[k] EXCEPT !.updated_at = t] ELSE ls[k]]

MoveLeadOffBoard(ls, leadId, newStatus, t) ==
    [k \in 1..Len(ls) |->
        IF ls[k].id = leadId
        THEN [ls[k] EXCEPT !.status = "archived", !.updated_at = t]
        ELSE ls[k]]

MoveLeadOrAdd(ls, leadId, newStatus, t) ==
    IF \E k \in 1..Len(ls) : ls[k].id = leadId
    THEN [k \in 1..Len(ls) |->
            IF ls[k].id = leadId
            THEN [ls[k] EXCEPT !.status = newStatus, !.updated_at = t]
            ELSE ls[k]]
    ELSE Append(ls, [id |-> leadId, status |-> newStatus, assigned_to |-> WebhookUser,
                     value |-> NoValue, created_at |-> t, updated_at |-> t])

MoveLead(ls, leadId, newStatus, t) ==
    [k \in 1..Len(ls) |->
        IF ls[k].id = leadId
        THEN [ls[k] EXCEPT !.status = newStatus, !.updated_at = t]
        ELSE ls[k]]

\* the status of leadId in a snapshot ("" when the snapshot has no such lead)
StatusOf(ls, leadId) ==
    IF \E i \in 1..Len(ls) : ls[i].id = leadId
    THEN ls[CHOOSE i \in 1..Len(ls) : ls[i].id = leadId].status
    ELSE ""

\* onDragEnd(result) with result = {draggableId: leadId, source, destination};
\* a position is <<droppableId, index>>, and destination is <<>> for a drop
\* outside every column
onDragEnd(leadId, source, destination) ==
    /\ IF destination = <<>> THEN
          UNCHANGED <<leads, columns, writes, toast, now>>
       ELSE IF ~MayMove(user) THEN
          /\ toast' = "Acesso negado"
          /\ UNCHANGED <<leads, columns, writes, now>>
       ELSE IF SameSlot(source, destination) THEN
          UNCHANGED <<leads, columns, writes, toast, now>>
       ELSE
          /\ now < MaxClock
          /\ Len(writes) < MaxWrites
          /\ \E t2 \in {now + 1, now + 2} :
               /\ t2 <= MaxClock
               /\ leads' = MoveLead(leads, leadId, destination[1], now + 1)
               /\ columns' = Project(leads')
               /\ writes' = Append(writes,
                              [id |-> leadId, status |-> destination[1],
                               updated_at |-> t2, prior |-> StatusOf(leads, leadId),
                               updatedLeads |-> leads'])
               /\ now' = t2
          /\ UNCHANGED toast
    /\ UNCHANGED <<store, auth, response, viewMode, loading, selectedLeads,
                   assignToUser, fetches, events>>

\* the drops the board can deliver: a rendered card with its column and
\* index, and a destination slot or none
BoardDrops ==
    UNION { { [draggableId |-> columns[c].leads[i].id,
               source |-> <<Stages[c], i>>,
               destination |-> d] :
                i \in 1..Len(columns[c].leads),
                d \in {<<>>} \cup {x \in DropStages \X {1, 2} :
                                     x[1] = Stages[c] => x[2] <= Len(columns[c].leads)} } :
            c \in 1..Len(Stages) }

OnDragEnd ==
    /\ viewMode = "kanban"
    /\ dragging = NoDrag
    /\ \E r \in BoardDrops : onDragEnd(r.draggableId, r.source, r.destination)
    /\ UNCHANGED dragging

\* a master picks up a rendered card (dragging is disabled for the others);
\* the snapshot may be replaced while the card is held
DragStart ==
    /\ Mounted
    /\ viewMode = "kanban"
    /\ user.role = "master"
    /\ dragging = NoDrag
    /\ \E c \in 1..Len(Stages) : \E i \in 1..Len(columns[c].leads) :
         dragging' = [draggableId |-> columns[c].leads[i].id, source |-> <<Stages[c], i>>]
    /\ UNCHANGED <<store, leads, columns, auth, response, viewMode, loading,
                   selectedLeads, assignToUser, fetches, writes, events, toast, now>>

\* the held card is released on a slot of a column, or outside every column:
\* onDragEnd runs with the snapshot of that moment
DragDrop ==
    /\ dragging # NoDrag
    /\ \E d \in {<<>>} \cup (DropStages \X {1, 2}) :
         onDragEnd(dragging.draggableId, dragging.source, d)
    /\ dragging' = NoDrag

\* .update({status, updated_at}).eq('id', leadId) applied to the table
UpdateRowsKeepStatus(rows, w) ==
    {IF r.id = w.id THEN [r EXCEPT !.updated_at = w.updated_at] ELSE r : r \in rows}

UpdateRowsEveryRow(rows, w) ==
    {[r EXCEPT !.status = w.status, !.updated_at = w.updated_at] : r \in rows}

UpdateRows(rows, w) ==
    {IF r.id = w.id THEN [r EXCEPT !.status = w.status, !.updated_at = w.updated_at]
     ELSE r : r \in rows}

\* the awaited update resolves: acknowledged, answered with an error, or thrown
WriteResolve ==
    \E i \in 1..Len(writes) :
        LET w == writes[i] IN
        /\ writes' = RemoveAt(writes, i)
        /\ \/ /\ events < MaxEvents
              /\ store' = UpdateRows(store, w)
              /\ events' = IF \E r \in store : r.id = w.id THEN events + 1 ELSE events
              /\ toast' = "Lead atualizado"
              /\ UNCHANGED fetches
           \/ /\ BagCardinality(fetches) < MaxFetches
              /\ fetches' = StartRevertFetch(fetches, w)
              /\ toast' = "Erro"
              /\ UNCHANGED <<store, events>>
        /\ UNCHANGED <<leads, columns, auth, dragging, response, viewMode, loading,
                       selectedLeads, assignToUser, now>>

\* ------------------------------------------------- other writers of the table
\* another session's accepted stage move reaches the table
ExternalUpdate ==
    /\ now < MaxClock
    /\ events < MaxEvents
    /\ \E r \in store, st \in ExtStages :
        /\ st # r.status
        /\ store' = UpdateRows(store, [id |-> r.id, status |-> st, updated_at |-> now + 1])
    /\ now' = now + 1
    /\ events' = events + 1
    /\ UNCHANGED <<leads, columns, auth, dragging, response, viewMode, loading, selectedLeads,
                   assignToUser, fetches, writes, toast>>

\* webhook-lead: leadData built from a body that has the required fields
leadDataWebhookUserOnly(id, value, assignedTo, t1, t2) ==
    [id |-> id, status |-> "new", assigned_to |-> WebhookUser,
     value |-> IF value = NoValue THEN 0 ELSE value,
     created_at |-> t1, updated_at |-> t2]

leadData(id, value, assignedTo, t1, t2) ==
    [id |-> id,
     status |-> "new",
     assigned_to |-> IF assignedTo = "" THEN WebhookUser ELSE assignedTo,
     value |-> IF value = NoValue THEN 0 ELSE value,
     created_at |-> t1,
     updated_at |-> t2]

\* request bodies with every required field present (TRUE: present and not
\* empty): value and assignedTo absent, or both given
WebhookBodies ==
    {[name |-> TRUE, email |-> TRUE, phone |-> TRUE, source |-> TRUE,
      value |-> NoValue, assignedTo |-> ""],
     [name |-> TRUE, email |-> TRUE, phone |-> TRUE, source |-> TRUE,
      value |-> 7, assignedTo |-> "uM"]}

\* request bodies: those above, one whose assignedTo is the id of no profile,
\* and bodies with some or all of the required fields missing or empty
AnyBodies ==
    WebhookBodies \cup
    {[name |-> TRUE, email |-> TRUE, phone |-> TRUE, source |-> TRUE,
      value |-> NoValue, assignedTo |-> "uX"]} \cup
    {[name |-> n, email |-> e, phone |-> p, source |-> s,
      value |-> NoValue, assignedTo |-> ""] :
        n \in BOOLEAN, e \in BOOLEAN, p \in BOOLEAN, s \in BOOLEAN}

\* !name || !email || !phone || !source
MissingRequiredNever(body) == FALSE

MissingRequired(body) == ~body.name \/ ~body.email \/ ~body.phone \/ ~body.source

\* Deno.serve handler for one request: method and parsed body, id the
\* randomUUID, t1 and t2 the two clock reads of leadData, inserted whether the
\* table accepts the insert
serve(method, body, id, t1, t2, inserted) ==
    IF method = "OPTIONS" THEN
        /\ response' = [NoResponse EXCEPT !.status = 200]
        /\ UNCHANGED <<store, events, now>>
    ELSE IF method # "POST" THEN
        /\ response' = [NoResponse EXCEPT !.status = 405, !.error = "Method not allowed"]
        /\ UNCHANGED <<store, events, now>>
    ELSE IF MissingRequired(body) THEN
        /\ response' = [NoResponse EXCEPT !.status = 400,
                                          !.error = "Missing required fields",
                                          !.required = RequiredFields]
        /\ UNCHANGED <<store, events, now>>
    ELSE
        /\ now' = t2
        /\ IF inserted THEN
              /\ store' = store \cup {leadData(id, body.value, body.assignedTo, t1, t2)}
              /\ events' = events + 1
              /\ response' = [NoResponse EXCEPT !.status = 200, !.leadId = id]
           ELSE
              /\ response' = [NoResponse EXCEPT !.status = 500,
                                                !.error = "Failed to save lead"]
              /\ UNCHANGED <<store, events>>

\* a request that the function accepts and the table stores
WebhookLead ==
    /\ now < MaxClock
    /\ events < MaxEvents
    /\ \E id \in LeadIds, body \in WebhookBodies, t2 \in {now + 1, now + 2} :
        /\ ~\E r \in store : r.id = id
        /\ t2 <= MaxClock
        /\ serve("POST", body, id, now + 1, t2, TRUE)
    /\ UNCHANGED <<leads, columns, auth, dragging, viewMode, loading, selectedLeads,
                   assignToUser, fetches, writes, toast>>

\* any request to the function
Methods == {"POST", "GET", "OPTIONS"}

WebhookRequest ==
    /\ \E method \in Methods, body \in AnyBodies :
        IF method = "POST" /\ ~MissingRequired(body) THEN
            \E id \in LeadIds, t2 \in {now + 1, now + 2}, inserted \in BOOLEAN :
                /\ ~\E r \in store : r.id = id
                /\ t2 <= MaxClock
                /\ inserted => events < MaxEvents
                /\ serve(method, body, id, now + 1, t2, inserted)
        ELSE
            serve(method, body, "", now, now, FALSE)
    /\ UNCHANGED <<leads, columns, auth, dragging, viewMode, loading, selectedLeads,
                   assignToUser, fetches, writes, toast>>

\* ------------------------------------------------------------ the list view
SetViewModeKeepSelection ==
    \E m \in {"kanban", "list"} :
        /\ Mounted
        /\ m # viewMode
        /\ viewMode' = m
        /\ UNCHANGED <<store, leads, columns, auth, dragging, response, loading, fetches, writes,
                       events, toast, now, selectedLeads, assignToUser>>

\* the Kanban / Lista toggle; LeadListView is mounted only in list mode, so
\* its state starts afresh each time the list is shown
SetViewMode ==
    \E m \in {"kanban", "list"} :
        /\ Mounted
        /\ m # viewMode
        /\ viewMode' = m
        /\ selectedLeads' = <<>>
        /\ assignToUser' = ""
        /\ UNCHANGED <<store, leads, columns, auth, dragging, response, loading, fetches, writes,
                       events, toast, now>>

\* the checkbox of a listed lead (rendered for master only)
handleSelectLead ==
    /\ viewMode = "list"
    /\ user.role = "master"
    /\ \E i \in 1..Len(visibleLeads) :
        LET leadId == visibleLeads[i].id IN
        selectedLeads' = IF leadId \notin Range(selectedLeads)
                         THEN Append(selectedLeads, leadId)
                         ELSE SelectSeq(selectedLeads, LAMBDA x : x # leadId)
    /\ UNCHANGED <<store, leads, columns, auth, dragging, response, viewMode, loading,
                   assignToUser, fetches, writes, events, toast, now>>

\* the select-all checkbox of the bulk actions card (rendered for master only)
handleSelectAll ==
    /\ viewMode = "list"
    /\ user.role = "master"
    /\ LET checked == Len(selectedLeads) = Len(visibleLeads) /\ Len(visibleLeads) > 0
       IN  selectedLeads' = IF ~checked THEN [k \in 1..Len(leads) |-> leads[k].id] ELSE <<>>
    /\ selectedLeads' # selectedLeads
    /\ UNCHANGED <<store, leads, columns, auth, dragging, response, viewMode, loading,
                   assignToUser, fetches, writes, events, toast, now>>

\* the "Delegar para..." select, shown once something is selected
setAssignToUser ==
    /\ viewMode = "list"
    /\ user.role = "master"
    /\ Len(selectedLeads) > 0
    /\ \E i \in 1..Len(getMasterUsers) :
        /\ assignToUser' = getMasterUsers[i].id
        /\ assignToUser' # assignToUser
    /\ UNCHANGED <<store, leads, columns, auth, dragging, response, viewMode, loading,
                   selectedLeads, fetches, writes, events, toast, now>>

AssignLeadsStampZero(ls, sel, to, t) ==
    [k \in 1..Len(ls) |->
        IF ls[k].id \in Range(sel)
        THEN [ls[k] EXCEPT !.assigned_to = to, !.updated_at = 0]
        ELSE ls[k]]

\* leads.map(lead => selectedLeads.includes(lead.id) ? {...lead, assigned_to, updated_at} : lead)
AssignLeads(ls, sel, to, t) ==
    [k \in 1..Len(ls) |->
        IF ls[k].id \in Range(sel)
        THEN [ls[k] EXCEPT !.assigned_to = to, !.updated_at = t]
        ELSE ls[k]]

handleAssignLeads ==
    /\ viewMode = "list"
    /\ IF assignToUser = "" \/ Len(selectedLeads) = 0 THEN
          /\ toast' = "Erro"
          /\ UNCHANGED <<leads, columns, selectedLeads, assignToUser, now>>
       ELSE
          /\ now < MaxClock
          /\ leads' = AssignLeads(leads, selectedLeads, assignToUser, now + 1)
          /\ columns' = Project(leads')
          /\ toast' = "Leads delegados"
          /\ selectedLeads' = <<>>
          /\ assignToUser' = ""
          /\ now' = now + 1
    /\ UNCHANGED <<store, auth, dragging, response, viewMode, loading, fetches, writes, events>>

\* ----------------------------------------------------------- specification
Next ==
    \/ FetchServe
    \/ FetchLand
    \/ RealtimeEvent
    \/ OnDragEnd
    \/ WriteResolve
    \/ ExternalUpdate
    \/ WebhookLead
    \/ SetViewMode
    \/ handleSelectLead
    \/ handleSelectAll
    \/ setAssignToUser
    \/ handleAssignLeads

Spec == Init /\ [][Next]_vars

\* the board under sign-in and sign-out, with the list view and its delegation
InitAuth ==
    /\ profiles = ProfileRows
    /\ dragging = NoDrag
    /\ provision = NoProvision
    /\ signedUp = {}
    /\ store = InitialStore
    /\ leads = <<>>
    /\ columns = Project(<<>>)
    /\ user = NoUser
    /\ users = <<>>
    /\ session = ""
    /\ profileFetch = ""
    /\ userFetches = EmptyBag
    /\ viewMode = "kanban"
    /\ loading = TRUE
    /\ selectedLeads = <<>>
    /\ assignToUser = ""
    /\ fetches = EmptyBag
    /\ writes = <<>>
    /\ events = 0
    /\ toast = "none"
    /\ now = InitialClock
    /\ response = NoResponse

NextAuth ==
    \/ SignIn
    \/ ProfileLand
    \/ UsersLand
    \/ logout
    \/ FetchServe
    \/ FetchLand
    \/ SetViewMode
    \/ handleSelectLead
    \/ handleSelectAll
    \/ setAssignToUser
    \/ handleAssignLeads

AuthSpec == InitAuth /\ [][NextAuth]_vars

\* the board with drags that last: a card is picked up, fetches are served and
\* land, the function inserts, writes resolve, and the card is released
NextDrag ==
    \/ DragStart
    \/ DragDrop
    \/ FetchServe
    \/ FetchLand
    \/ RealtimeEvent
    \/ WebhookLead
    \/ WriteResolve

DragSpec == Init /\ [][NextDrag]_vars

\* member provisioning by a signed-in master, with the auth-state listener
\* and the board's fetches
NextProvision ==
    \/ addSubUser
    \/ SubUserInsert
    \/ SubUserListed
    \/ SignedUpSession
    \/ ProfileLand
    \/ UsersLand
    \/ logout
    \/ SignIn
    \/ FetchServe
    \/ FetchLand

ProvisionSpec == Init /\ [][NextProvision]_vars

\* the webhook-lead function with every kind of request, and the board's
\* re-fetch on the notifications of its inserts
NextWebhook ==
    \/ WebhookRequest
    \/ RealtimeEvent
    \/ FetchServe
    \/ FetchLand

WebhookSpec == Init /\ [][NextWebhook]_vars

\* the board with the scheduling the browser and the table guarantee: a fetch
\* in flight is answered and its continuation runs, a notification is
\* delivered; nothing makes the awaited update of onDragEnd resolve
LiveSpec ==
    /\ Init
    /\ [][Next]_vars
    /\ WF_vars(FetchServe)
    /\ WF_vars(FetchLand)
    /\ WF_vars(RealtimeEvent)

\* ------------------------------------------------------------------ claims
ValueOrZero(l) == IF l.value = NoValue THEN 0 ELSE l.value

RECURSIVE SumValues(_)
SumValues(S) ==
    IF S = {} THEN 0
    ELSE LET l == CHOOSE x \in S : TRUE IN ValueOrZero(l) + SumValues(S \ {l})

\* the slots <<column, index>> at which the lead with this id is shown
SlotsOf(cols, leadId) ==
    {<<c, i>> \in (1..Len(cols)) \X (1..Cardinality(LeadIds)) :
        i <= Len(cols[c].leads) /\ cols[c].leads[i].id = leadId}

\* C1: the six columns partition the snapshot: every lead of the snapshot is
\* shown in exactly one slot, in the column of its status, no column shows
\* anything that is not in the snapshot, and each column's total is the sum
\* of the values (absent as 0) of the snapshot's leads of that status.
C1_ProjectionPartitions ==
    /\ Len(columns) = Len(Stages)
    /\ \A c \in 1..Len(columns) :
        /\ columns[c].id = Stages[c]
        /\ \A i \in 1..Len(columns[c].leads) : columns[c].leads[i] \in Range(leads)
        /\ totalValue(columns[c].leads)
             = SumValues({l \in Range(leads) : l.status = Stages[c]})
    /\ \A k \in 1..Len(leads) :
        /\ Cardinality(SlotsOf(columns, leads[k].id)) = 1
        /\ \A sl \in SlotsOf(columns, leads[k].id) :
             /\ Stages[sl[1]] = leads[k].status
             /\ columns[sl[1]].leads[sl[2]] = leads[k]

C1_Witness ==
    /\ Len(leads) = 3
    /\ Cardinality({c \in 1..Len(columns) : columns[c].leads # <<>>}) >= 2
    /\ \E k \in 1..Len(leads) : leads[k].value = NoValue
    /\ \E c \in 1..Len(columns) :
         Len(columns[c].leads) = 2 /\ totalValue(columns[c].leads) > 0

\* C2: a drop with a destination made while the principal is not master shows
\* the "Acesso negado" toast, leaves the snapshot and the columns as they
\* were and issues no write.
C2_MemberMoveRejected ==
    [][\A r \in BoardDrops :
         (user.role # "master" /\ r.destination # <<>>
            /\ onDragEnd(r.draggableId, r.source, r.destination))
         => (toast' = "Acesso negado" /\ leads' = leads /\ columns' = columns
               /\ writes' = writes /\ store' = store)]_vars

C2_Witness ==
    /\ user.role = "user"
    /\ viewMode = "kanban"
    /\ toast = "Acesso negado"
    /\ Len(leads) > 0
    /\ writes = <<>>

\* C3 as claimed: a master's drop on the column the lead is already in, at any
\* index, changes nothing in the snapshot and issues no write.
C3_SameStageAnyIndexNoOp ==
    [][\A r \in BoardDrops :
         (user.role = "master" /\ r.destination # <<>>
            /\ r.destination[1] = StatusOf(leads, r.draggableId)
            /\ onDragEnd(r.draggableId, r.source, r.destination))
         => (leads' = leads /\ writes' = writes)]_vars

\* C3 amended: a master's drop on the slot the card was taken from (same
\* column and same index) changes nothing: snapshot, columns, writes, store,
\* toast and clock are as before.
C3_SameSlotNoOp ==
    [][\A r \in BoardDrops :
         (user.role = "master" /\ r.destination = r.source
            /\ onDragEnd(r.draggableId, r.source, r.destination))
         => UNCHANGED <<leads, columns, writes, store, toast, now>>]_vars

\* a state in which a master drops a card on its own slot (the drop leaves
\* the state as it is, so this is the state after the drop as well), and in
\* which a drop elsewhere would be taken up
C3_Witness ==
    /\ user.role = "master"
    /\ viewMode = "kanban"
    /\ \E r \in BoardDrops : r.destination = r.source
    /\ \E c \in 1..Len(columns) : Len(columns[c].leads) >= 2
    /\ now < MaxClock
    /\ Len(writes) < MaxWrites

\* C4 as claimed: when the re-fetch started by a failed stage write has
\* completed, the moved lead has its pre-mutation status in the snapshot
\* (the table still holding that status for the lead, whatever happened to
\* other leads).
C4_RollbackLaw ==
    [][\A f \in BagToSet(fetches) :
         (f.revert # <<>> /\ fetches' = fetches (-) SetToBag({f})
            /\ \E r \in store : r.id = f.revert[1] /\ r.status = f.revert[2])
         => StatusOf(leads', f.revert[1]) = f.revert[2]]_vars

\* the rows of a snapshot other than the row of leadId
Others(rows, leadId) == {r \in rows : r.id # leadId}

\* the snapshot is as the optimistic application of w left it, and differs
\* from the table by exactly that patch
OnlyOptimisticAhead(w) ==
    /\ leads = w.updatedLeads
    /\ Others(Range(leads), w.id) = Others(store, w.id)
    /\ \E l \in Range(leads), r \in store :
         /\ l.id = w.id /\ r.id = w.id
         /\ r.status = w.prior
         /\ l.status = w.status
         /\ [l EXCEPT !.status = r.status, !.updated_at = r.updated_at] = r

\* the write w is acknowledged in this step
Committed(w) ==
    /\ \E i \in 1..Len(writes) : writes[i] = w /\ writes' = RemoveAt(writes, i)
    /\ toast' = "Lead atualizado"

\* C5 as claimed: once a stage write is acknowledged, every result a re-fetch
\* returns for the committed table is the snapshot as the optimistic
\* application left it.
C5_ReconcileIdentical ==
    [][\A w \in Range(writes) :
         (Committed(w) /\ OnlyOptimisticAhead(w))
         => \A d \in OrderedByCreatedDesc(store') : d = leads]_vars

\* two snapshots agree except, possibly, on the update timestamp of leadId,
\* which is not earlier in d than in ls
SameButStamp(d, ls, leadId) ==
    /\ Len(d) = Len(ls)
    /\ \A k \in 1..Len(d) :
         IF ls[k].id = leadId
         THEN /\ d[k] = [ls[k] EXCEPT !.updated_at = d[k].updated_at]
              /\ d[k].updated_at >= ls[k].updated_at
         ELSE d[k] = ls[k]

\* C5 amended: once a stage write is acknowledged, every result a re-fetch
\* returns for the committed table equals the snapshot as the optimistic
\* application left it, except that the moved lead's update timestamp is the
\* one of the write, which is not earlier than the local one; and a fetch that
\* returns data replaces the snapshot by exactly that data.
C5_ReconcileSameButStamp ==
    /\ [][\A w \in Range(writes) :
            (Committed(w) /\ OnlyOptimisticAhead(w))
            => \A d \in OrderedByCreatedDesc(store') : SameButStamp(d, leads, w.id)]_vars
    /\ [][\A f \in BagToSet(fetches) :
            (f.phase = "ok" /\ fetches' = fetches (-) SetToBag({f}))
            => (leads' = f.data /\ columns' = Project(f.data))]_vars

\* a stage write has just been acknowledged and the table holds the moved
\* lead with the snapshot's status and a later update timestamp
C5_Witness ==
    /\ toast = "Lead atualizado"
    /\ writes = <<>>
    /\ \E l \in Range(leads), r \in store :
         /\ l.id = r.id
         /\ l.status = r.status
         /\ r.updated_at > l.updated_at
         /\ Others(Range(leads), l.id) = Others(store, l.id)

\* C6 as claimed: every lead a delegation reports as delegated has had its
\* owner written to the table.
C6_ReportedMeansWritten ==
    [][(handleAssignLeads /\ toast' = "Leads delegados")
         => \A id \in Range(selectedLeads) :
              \E r \in store' : r.id = id /\ r.assigned_to = assignToUser]_vars

\* C7: in the list view the leads shown are exactly the leads of the snapshot
\* that the principal is master or owns, each once and in snapshot order; a
\* member is shown only leads assigned to it.
C7_VisibleIsCanView ==
    viewMode = "list" =>
        /\ \A l \in Range(leads) :
             (l \in Range(visibleLeads))
               <=> (user.role = "master" \/ l.assigned_to = user.user_id)
        /\ Range(visibleLeads) \subseteq Range(leads)
        /\ Cardinality(Range(visibleLeads)) = Len(visibleLeads)
        /\ \A i, j \in 1..Len(visibleLeads) :
             i < j => \E a, b \in 1..Len(leads) :
                        a < b /\ leads[a] = visibleLeads[i] /\ leads[b] = visibleLeads[j]
        /\ user.role = "user"
             => \A i \in 1..Len(visibleLeads) : visibleLeads[i].assigned_to = user.user_id

C7_Witness ==
    /\ viewMode = "list"
    /\ user.user_id = "uM"
    /\ \E l \in Range(leads) : l.assigned_to = "uN"
    /\ \E l \in Range(leads) : l.assigned_to = "uM"
    /\ Len(visibleLeads) >= 1
    /\ Len(visibleLeads) < Len(leads)

\* C8 as claimed: whatever view is shown, a member is shown only leads it owns.
C8_MemberSeesOnlyOwn ==
    user.role = "user" =>
        /\ viewMode = "list"
             => \A i \in 1..Len(visibleLeads) : visibleLeads[i].assigned_to = user.user_id
        /\ viewMode = "kanban"
             => \A c \in 1..Len(columns) : \A i \in 1..Len(columns[c].leads) :
                  columns[c].leads[i].assigned_to = user.user_id

\* C9: when a master's drop moves a lead to another stage, then in the same
\* step, with the write still in flight and the table untouched, the lead is
\* shown once, in the column of the new stage, the total of that column has
\* grown by the lead's value, and no other column shows it.
C9_OptimisticVisible ==
    [][\A r \in BoardDrops :
         (user.role = "master" /\ r.destination # <<>>
            /\ r.destination[1] # StatusOf(leads, r.draggableId)
            /\ onDragEnd(r.draggableId, r.source, r.destination))
         => LET dest == CHOOSE c \in 1..Len(Stages) : Stages[c] = r.destination[1]
                old == CHOOSE l \in Range(leads) : l.id = r.draggableId
            IN  /\ SlotsOf(columns', r.draggableId) # {}
                /\ \A sl \in SlotsOf(columns', r.draggableId) : sl[1] = dest
                /\ Cardinality(SlotsOf(columns', r.draggableId)) = 1
                /\ totalValue(columns'[dest].leads)
                     = totalValue(columns[dest].leads) + ValueOrZero(old)
                /\ store' = store
                /\ Len(writes') = Len(writes) + 1
                /\ writes'[Len(writes')].id = r.draggableId
                /\ writes'[Len(writes')].status = r.destination[1]]_vars

\* a stage write is in flight, the table still has the prior stage, and the
\* lead, which has a value, is shown in the column of the new stage
C9_Witness ==
    \E i \in 1..Len(writes) :
        LET w == writes[i] IN
        /\ w.status # w.prior
        /\ \E r \in store : r.id = w.id /\ r.status = w.prior /\ r.value > 0
        /\ \E c \in 1..Len(columns) :
             /\ columns[c].id = w.status
             /\ \E k \in 1..Len(columns[c].leads) : columns[c].leads[k].id = w.id
             /\ totalValue(columns[c].leads) > 0

\* C10 as claimed: handleAssignLeads run while the principal is not master
\* shows the "Acesso negado" toast and leaves snapshot and selection alone.
C10_MemberAssignRejected ==
    [][(user.role # "master" /\ handleAssignLeads)
         => (toast' = "Acesso negado" /\ leads' = leads
               /\ selectedLeads' = selectedLeads)]_vars

\* the ids of the rows of a list of profiles
IdsOf(us) == {us[i].id : i \in 1..Len(us)}

\* the principal together with the members provisioned by it, for a master;
\* the principal alone otherwise
TeamIds(u) == IF u.role = "master" THEN {u.id} \cup IdsOf(TeamOf(u)) ELSE {u.id}

\* C11 as claimed: handleAssignLeads run with nothing selected, or with a
\* delegate that is neither offered by getMasterUsers nor the principal or a
\* member provisioned by it, shows the "Erro" toast and leaves the snapshot
\* and the selection as they were.
C11_InvalidDelegationRejected ==
    [][(handleAssignLeads
          /\ (selectedLeads = <<>>
                \/ assignToUser \notin (IdsOf(getMasterUsers) \cup TeamIds(user))))
         => (toast' = "Erro" /\ leads' = leads /\ selectedLeads' = selectedLeads)]_vars

\* C12 as claimed: whenever the board is shown, the delegates getMasterUsers
\* offers are, for a master, the master and the members provisioned by it,
\* and for a member the member alone; and no offered delegate was provisioned
\* by another master.
C12_DelegatesAreOwnTeam ==
    Mounted =>
        /\ IdsOf(getMasterUsers) = TeamIds(user)
        /\ \A i \in 1..Len(getMasterUsers) :
             (getMasterUsers[i].id # user.id
                /\ getMasterUsers[i].master_account_id # NoMaster)
               => getMasterUsers[i].master_account_id = user.id

\* C13 as claimed: a stage write in flight is eventually resolved (committed
\* or rolled back), also when the table never answers it.
C13_WriteEventuallyResolves == (writes # <<>>) ~> (writes = <<>>)

\* C14 as claimed: a notification delivered while the re-fetch started by an
\* earlier notification has not yet been answered by the table starts no
\* further fetch: the burst shares the one re-fetch.
C14_BurstOneFetch ==
    [][(RealtimeEvent /\ \E f \in BagToSet(fetches) : f.by = "channel" /\ f.phase = "sent")
         => fetches' = fetches]_vars

\* C15: when a fetch in flight lands, then with data the snapshot becomes
\* exactly the fetched rows, in their order, and the columns their projection;
\* with an error result or a thrown request the snapshot and the columns stay
\* exactly as they were.
C15_ReplaceAllOrNothing ==
    [][\A f \in BagToSet(fetches) :
         (FetchLand /\ fetches' = fetches (-) SetToBag({f}))
         => IF f.phase = "ok"
            THEN leads' = f.data /\ columns' = Project(f.data)
            ELSE leads' = leads /\ columns' = columns]_vars

\* a re-fetch has failed with the error toast and the snapshot, which is
\* behind the table, is still there
C15_Witness ==
    /\ toast = "Erro"
    /\ user.role = "user"
    /\ viewMode = "kanban"
    /\ loading = FALSE
    /\ fetches = EmptyBag
    /\ events = 0
    /\ Len(leads) = 2
    /\ Cardinality(store) = 3

\* C16 as claimed: whenever no stage write and no fetch is in flight and no
\* notification is undelivered, the snapshot holds exactly the rows of the
\* table.
C16_QuiescentMeansSynced ==
    (writes = <<>> /\ fetches = EmptyBag /\ events = 0)
        => (Range(leads) = store /\ Len(leads) = Cardinality(store))

\* C17 as claimed: when a fetch lands with data in which a lead still has the
\* stage it had before a stage write that is still in flight, the snapshot
\* after the replace shows that lead at the stage of the write, as the
\* snapshot did before.
C17_OptimisticSurvivesReconcile ==
    [][\A f \in BagToSet(fetches), w \in Range(writes) :
         (/\ FetchLand
          /\ f.phase = "ok"
          /\ fetches' = fetches (-) SetToBag({f})
          /\ w.prior # w.status
          /\ StatusOf(f.data, w.id) = w.prior
          /\ StatusOf(leads, w.id) = w.status)
         => StatusOf(leads', w.id) = w.status]_vars

\* C18 as claimed: while the principal is not master no drop, with or
\* without a destination and also on the card's own slot, can be handled
\* otherwise than by showing the "Acesso negado" toast.
C18_MemberDropAlwaysRejected ==
    \A r \in BoardDrops :
        user.role # "master"
          => ~ENABLED (/\ onDragEnd(r.draggableId, r.source, r.destination)
                       /\ toast' # "Acesso negado")

\* the required fields that a body lacks, in the order of RequiredFields
MissingOf(body) == SelectSeq(RequiredFields, LAMBDA f : ~body[f])

\* the id, clock reads and insert outcome with which a request may be served
ServeArgs ==
    {<<"", now, now, FALSE>>}
      \cup (LeadIds \X {now + 1} \X {now + 1, now + 2} \X BOOLEAN)

\* a POST whose body lacks at least one required field is served in this step
ServedIncomplete(body) ==
    /\ ~(body.name /\ body.email /\ body.phone /\ body.source)
    /\ \E a \in ServeArgs : serve("POST", body, a[1], a[2], a[3], a[4])

\* C19 as claimed: a POST whose body lacks required fields is answered with
\* status 400 and a list of exactly the fields that body lacks, and the table
\* is left as it was.
C19_ListsExactlyMissing ==
    [][\A body \in AnyBodies :
         ServedIncomplete(body)
         => (/\ response'.status = 400
             /\ response'.required = MissingOf(body)
             /\ store' = store)]_vars

\* C19 amended: a POST whose body lacks required fields is answered with
\* status 400, the error "Missing required fields" and the list of all four
\* required fields, whichever of them the body lacks; the table is left as it
\* was, no notification is raised and no id is reported.
C19_ListsAllRequired ==
    [][\A body \in AnyBodies :
         ServedIncomplete(body)
         => (/\ response'.status = 400
             /\ response'.error = "Missing required fields"
             /\ response'.required = RequiredFields
             /\ response'.leadId = ""
             /\ store' = store
             /\ events' = events)]_vars

\* a request has been refused for missing fields and the table holds what it
\* held before
C19_Witness ==
    /\ response.status = 400
    /\ response.required = RequiredFields
    /\ store = InitialStore

\* a POST whose body has every required field is served in this step, with
\* this id and this outcome of the insert
ServedComplete(body, id, inserted) ==
    /\ body.name /\ body.email /\ body.phone /\ body.source
    /\ \E t2 \in {now + 1, now + 2} : serve("POST", body, id, now + 1, t2, inserted)

\* C20: a POST whose body has every required field and whose insert the table
\* accepts adds exactly one row to the table, with the new id, status new and
\* owner the body's assignedTo, or "webhook-user" when the body has none, and
\* is answered with status 200 and that id; when the table refuses the insert
\* the table is as before and the answer is a 500 with an error and no id.
C20_ValidRequestCreatesOne ==
    [][\A body \in AnyBodies, id \in LeadIds, inserted \in BOOLEAN :
         ServedComplete(body, id, inserted)
         => IF inserted
            THEN /\ ~\E r \in store : r.id = id
                 /\ Cardinality(store') = Cardinality(store) + 1
                 /\ \E r \in store' :
                      /\ store' = store \cup {r}
                      /\ r.id = id
                      /\ r.status = "new"
                      /\ r.assigned_to = (IF body.assignedTo = "" THEN "webhook-user"
                                          ELSE body.assignedTo)
                 /\ response'.status = 200
                 /\ response'.leadId = id
            ELSE /\ store' = store
                 /\ response'.status = 500
                 /\ response'.error # ""
                 /\ response'.leadId = ""]_vars

\* a request with an owner has been stored and answered with the id of its
\* row, which the table holds with status new and that owner
C20_Witness ==
    /\ response.status = 200
    /\ response.leadId \in LeadIds
    /\ Cardinality(store) = Cardinality(InitialStore) + 1
    /\ \E r \in store :
         r.id = response.leadId /\ r.status = "new" /\ r.assigned_to = "uM"

\* C21: every lead of the snapshot, every row of the table, every row of a
\* fetch answer in flight and every stage write in flight has one of the six
\* stages of defaultColumns as its status.
C21_StageInEnumeration ==
    /\ \A l \in Range(leads) \cup store : l.status \in StageSet
    /\ \A f \in BagToSet(fetches) : \A l \in Range(f.data) : l.status \in StageSet
    /\ \A w \in Range(writes) : w.status \in StageSet

\* a lead moved by a drop is in the snapshot at its new stage, the move has
\* been written, and a lead ingested by the webhook is in the snapshot too
C21_Witness ==
    /\ toast = "Lead atualizado"
    /\ \E l \in Range(leads) :
         /\ l.status \in {"qualified", "won"}
         /\ \E r \in store : r.id = l.id /\ r.status = l.status
    /\ \E l \in Range(leads) : l.id = "L3"

\* the user ids of the profiles table
KnownIds == {ProfileRows[i].user_id : i \in 1..Len(ProfileRows)}

\* C22 as claimed: the owner of every row of the table and of every lead of
\* the snapshot is the user id of a profile or "webhook-user".
C22_OwnerResolves ==
    \A l \in store \cup Range(leads) : l.assigned_to \in KnownIds \cup {WebhookUser}

\* no lead that is in both snapshots has an earlier update timestamp in the
\* second than in the first
StampsNotDecreased(ls1, ls2) ==
    \A a \in Range(ls1), b \in Range(ls2) : a.id = b.id => b.updated_at >= a.updated_at

C24_ProvisionedIsMember ==
    /\ \A p \in Range(profiles) :
         p.role = "user" =>
           \E q \in Range(profiles) : q.user_id = p.master_account_id /\ q.role = "master"
    /\ \A p \in Range(profiles) : p.user_id \in signedUp => p.role = "user"

\* C25: the selection is empty right after a delegation that reported
\* "Leads delegados" and right after every switch between the board and the
\* list.
C25_SelectionCleared ==
    [][((handleAssignLeads /\ toast' = "Leads delegados") \/ viewMode' # viewMode)
       => selectedLeads' = <<>>]_vars

\* the list right after a delegation of selected leads: nothing is selected,
\* and a lead has an owner the table does not have for it
C25_Witness ==
    /\ viewMode = "list"
    /\ toast = "Leads delegados"
    /\ selectedLeads = <<>>
    /\ \E l \in Range(leads), r \in store : l.id = r.id /\ l.assigned_to # r.assigned_to

\* C26 as claimed: when a delegation reports "Leads delegados", the leads
\* table has the new owner for every lead that was selected, so that a
\* re-fetch served from then on (no other edit to those rows) brings the new
\* owner back.
C26_DelegationWrittenThrough ==
    [][(handleAssignLeads /\ toast' = "Leads delegados")
       => \A l \in Range(leads'), r \in store' :
            (l.id \in Range(selectedLeads) /\ r.id = l.id)
            => r.assigned_to = l.assigned_to]_vars

\* C27: the drop of a held card whose lead is no longer in the snapshot
\* leaves the snapshot and the columns as they were and shows no toast.
C27_AbsentLeadDropIsNoOp ==
    [][(DragDrop /\ \A l \in Range(leads) : l.id # dragging.draggableId)
       => (leads' = leads /\ columns' = columns /\ toast' = toast)]_vars

\* a card was released on another column after a re-fetch had taken its lead
\* out of the snapshot: the update for it is in flight, with no prior status
C27_Witness ==
    /\ dragging = NoDrag
    /\ \E w \in Range(writes) :
         /\ w.prior = ""
         /\ \A l \in Range(leads) : l.id # w.id
         /\ \E r \in store : r.id = w.id

\* C28: a drop changes, in the snapshot, nothing but the status and the
\* update timestamp of the dropped lead (the order and every other lead stay),
\* and a resolving write changes, in the table, nothing but the status and
\* the update timestamp of the row with its id.
C28_MoveFrame ==
    [][/\ \A r \in BoardDrops :
            onDragEnd(r.draggableId, r.source, r.destination)
            => /\ Len(leads') = Len(leads)
               /\ \A k \in 1..Len(leads) :
                    IF leads[k].id = r.draggableId
                    THEN leads'[k] = [leads[k] EXCEPT !.status = leads'[k].status,
                                                      !.updated_at = leads'[k].updated_at]
                    ELSE leads'[k] = leads[k]
       /\ \A i \in 1..Len(writes) :
            (WriteResolve /\ writes' = RemoveAt(writes, i))
            => /\ {r.id : r \in store'} = {r.id : r \in store}
               /\ \A r \in store, r2 \in store' :
                    r2.id = r.id =>
                      IF r.id = writes[i].id
                      THEN r2 \in {r, [r EXCEPT !.status = writes[i].status,
                                                !.updated_at = writes[i].updated_at]}
                      ELSE r2 = r]_vars

\* a move has reached the table: the moved lead has its new status and a later
\* update timestamp there, its owner and value are as before, and the other
\* row is as it was at the start
C28_Witness ==
    /\ toast = "Lead atualizado"
    /\ writes = <<>>
    /\ \E r \in store, r0 \in InitialStore :
         /\ r.id = r0.id
         /\ r.status # r0.status
         /\ r.updated_at > r0.updated_at
         /\ r = [r0 EXCEPT !.status = r.status, !.updated_at = r.updated_at]
         /\ \E l \in Range(leads) : l = r
    /\ \E r \in store : r \in InitialStore

\* C29 as claimed: whenever the "Delegar para..." select is shown to a master
\* (list view, something selected), no two of its options are the same
\* principal.
C29_DelegatesOfferedOnce ==
    (viewMode = "list" /\ user.role = "master" /\ Len(selectedLeads) > 0)
      => \A i, j \in 1..Len(getMasterUsers) :
           i # j => getMasterUsers[i].id # getMasterUsers[j].id

\* C30 as claimed: in the list view no id is selected twice, and every
\* selected id is the id of a lead of the snapshot that the principal sees.
C30_SelectionWithinVisible ==
    viewMode = "list"
      => /\ \A i, j \in 1..Len(selectedLeads) : i # j => selectedLeads[i] # selectedLeads[j]
         /\ \A i \in 1..Len(selectedLeads) :
              \E l \in Range(visibleLeads) : l.id = selectedLeads[i]
====
